---- MODULE Spec2Model ----
(***************************************************************************)
(* A model of the sqlite-vec shim (CSqliteVec/include/shim.h): the         *)
(* registration wrapper sqlite_vec_register, the accessor                  *)
(* sqlite_vec_version and the three byte-size helpers, called by one or    *)
(* several caller threads.                                                 *)
(*                                                                         *)
(* A size_t is a 64-bit unsigned word.  TLC's integers are 32-bit, so a    *)
(* word is kept as its four 16-bit limbs, least significant first:         *)
(* <<l0, l1, l2, l3>> stands for l0 + l1*2^16 + l2*2^32 + l3*2^48.         *)
(***************************************************************************)
EXTENDS Integers, Sequences, FiniteSets, TLC

(* ------------------------------------------------------------------ *)
(* Bounds of the model                                                 *)
(* ------------------------------------------------------------------ *)

\* Caller threads.
NumThreads == 2
\* Dimensionalities -MaxDim .. MaxDim are tried, besides the boundary ones.
MaxDim == 9

VARIABLES
    pc,                 \* per thread: "idle", "entered", "inited", "returned"
    call,               \* per thread: the call the caller made (function, arguments)
    frame,              \* per thread: the callee's parameters and locals
    ret,                \* per thread: the value the call returned to the caller
    inits,              \* per thread: the sqlite3_vec_init invocations its call made
    registered,         \* extension: connections on which its init succeeded
    initialised,        \* extension: connections on which its init was invoked
    remembered,         \* caller: an earlier call and its result, kept to compare
    SQLITE_VEC_VERSION  \* the extension's version string of this build

vars == <<pc, call, frame, ret, inits, registered, initialised, remembered,
          SQLITE_VEC_VERSION>>

(* ------------------------------------------------------------------ *)
(* Machine arithmetic                                                  *)
(* ------------------------------------------------------------------ *)

\* Largest and smallest value of the C type int of the parameter `dimensions`.
INT_MAX == 2147483647
INT_MIN == -INT_MAX - 1

\* One limb of a size_t word holds 16 bits.
LimbBase == 2^16
LimbMax == LimbBase - 1

\* sizeof(float) and sizeof(int8_t).
SizeofFloat == 4
SizeofInt8 == 1

\* The size_t word of a natural number below 2^31.
NatWord(n) == <<n % LimbBase, n \div LimbBase, 0, 0>>

\* A faulty conversion: through unsigned int, which zero-extends.
CastSizeTZeroExtend(dimensions) ==
    <<dimensions % LimbBase, (dimensions \div LimbBase) % LimbBase, 0, 0>>

\* (size_t)dimensions: the conversion of an int to the 64-bit unsigned type.
\* A negative value is reduced modulo 2^64, which sign-extends it.
CastSizeT(dimensions) ==
    LET ext == IF dimensions < 0 THEN LimbMax ELSE 0
    IN  <<dimensions % LimbBase, (dimensions \div LimbBase) % LimbBase, ext, ext>>

\* w * k in size_t arithmetic (modulo 2^64), k a small factor.
MulWord(w, k) ==
    LET p1 == w[1] * k
        p2 == w[2] * k + (p1 \div LimbBase)
        p3 == w[3] * k + (p2 \div LimbBase)
        p4 == w[4] * k + (p3 \div LimbBase)
    IN  <<p1 % LimbBase, p2 % LimbBase, p3 % LimbBase, p4 % LimbBase>>

\* w + k in size_t arithmetic (modulo 2^64), k a small addend.
AddWord(w, k) ==
    LET s1 == w[1] + k
        s2 == w[2] + (s1 \div LimbBase)
        s3 == w[3] + (s2 \div LimbBase)
        s4 == w[4] + (s3 \div LimbBase)
    IN  <<s1 % LimbBase, s2 % LimbBase, s3 % LimbBase, s4 % LimbBase>>

\* w / k in size_t arithmetic (truncating), k a small divisor.
DivWord(w, k) ==
    LET n4 == w[4]
        n3 == (n4 % k) * LimbBase + w[3]
        n2 == (n3 % k) * LimbBase + w[2]
        n1 == (n2 % k) * LimbBase + w[1]
    IN  <<n1 \div k, n2 \div k, n3 \div k, n4 \div k>>

(* ------------------------------------------------------------------ *)
(* The byte-size helpers                                               *)
(* ------------------------------------------------------------------ *)

\* A faulty float32 size: the product taken in int (32 bits, wrapping)
\* and only then converted to size_t.
Float32ByteSizeIntArith(dimensions) ==
    LET w == MulWord(CastSizeT(dimensions), SizeofFloat)
        ext == IF w[2] >= LimbBase \div 2 THEN LimbMax ELSE 0
    IN  <<w[1], w[2], ext, ext>>

\* A faulty float32 size: the element taken as a double.
Float32ByteSizeDouble(dimensions) ==
    MulWord(CastSizeT(dimensions), 2 * SizeofFloat)

\* sqlite_vec_float32_byte_size: (size_t)dimensions * sizeof(float).
sqlite_vec_float32_byte_size(dimensions) ==
    MulWord(CastSizeT(dimensions), SizeofFloat)

\* A faulty int8 size that depends on the extension's state: zero until some
\* connection has been registered.
Int8ByteSizeNeedsInit(dimensions) ==
    IF registered = {} THEN <<0, 0, 0, 0>>
    ELSE MulWord(CastSizeT(dimensions), SizeofInt8)

\* A faulty int8 size: the element taken as an int16_t.
Int8ByteSizeInt16(dimensions) ==
    MulWord(CastSizeT(dimensions), 2 * SizeofInt8)

\* sqlite_vec_int8_byte_size: (size_t)dimensions * sizeof(int8_t).
sqlite_vec_int8_byte_size(dimensions) ==
    MulWord(CastSizeT(dimensions), SizeofInt8)

\* A faulty binary size: the division without the rounding addend.
BinaryByteSizeTruncating(dimensions) ==
    DivWord(CastSizeT(dimensions), 8)

\* sqlite_vec_binary_byte_size: ((size_t)dimensions + 7) / 8.
sqlite_vec_binary_byte_size(dimensions) ==
    DivWord(AddWord(CastSizeT(dimensions), 7), 8)

(* ------------------------------------------------------------------ *)
(* Callers, connections and the extension                              *)
(* ------------------------------------------------------------------ *)

Threads == 1..NumThreads
\* The thread of the single-threaded specification.
Main == CHOOSE t \in Threads : \A u \in Threads : t <= u

\* Open connections, owned by the caller.
Handles == {"db1", "db2"}
NULL == "NULL"
NoDb == "none"

\* Status codes of the extension's initialization routine: SQLITE_OK,
\* SQLITE_ERROR and SQLITE_NOMEM.
SQLITE_OK == 0
StatusCodes == {SQLITE_OK, 1, 7}
\* A value that is no status code: the call has not got one yet.
NoRc == SQLITE_OK - 1

\* Values the build's SQLITE_VEC_VERSION macro may have.
VersionStrings == {"v0.1.0", "v0.1.6"}

FnRegister == "sqlite_vec_register"
FnVersion == "sqlite_vec_version"
FnFloat32 == "sqlite_vec_float32_byte_size"
FnInt8 == "sqlite_vec_int8_byte_size"
FnBinary == "sqlite_vec_binary_byte_size"
SizeFns == {FnFloat32, FnInt8, FnBinary}

\* Dimensionalities at which 32-bit arithmetic would behave differently.
BoundaryDims == {384, 2^29, 2^30, INT_MAX - 7, INT_MAX, INT_MIN}
Dims == (-MaxDim .. MaxDim) \cup BoundaryDims
\* Dimensionalities of the multi-threaded specification.
ConcDims == {0, 9, -8}

\* The calls a caller can make with dimensionalities from D.
CallsOver(D) ==
    {[fn |-> FnRegister, db |-> h, dimensions |-> 0] : h \in Handles}
    \cup {[fn |-> FnVersion, db |-> NoDb, dimensions |-> 0]}
    \cup {[fn |-> f, db |-> NoDb, dimensions |-> d] : f \in SizeFns, d \in D}

NoCall == [fn |-> "none", db |-> NoDb, dimensions |-> 0]
NoFrame == [db |-> NoDb, dimensions |-> 0, rc |-> NoRc]
NoRet == <<>>
NoMemo == [fn |-> "none", db |-> NoDb, dimensions |-> 0, ret |-> NoRet,
           registered |-> {}, initialised |-> {}]

\* A faulty parameter: kept in one static slot that all the calls of a
\* function share, so a call reads what the earliest live call stored.
ParamShared(t) ==
    frame[CHOOSE u \in Threads :
              pc[u] \in {"entered", "inited"} /\ call[u].fn = call[t].fn]

\* The parameters of thread t's call: automatic storage of that call.
Param(t) == frame[t]

\* Faulty arguments: an error-message out-parameter is passed.
RegisterInitArgsErrMsg(db) == [db |-> db, pzErrMsg |-> "errmsg", pApi |-> NULL]

\* The arguments sqlite_vec_register passes: sqlite3_vec_init(db, NULL, NULL).
RegisterInitArgs(db) == [db |-> db, pzErrMsg |-> NULL, pApi |-> NULL]

\* A faulty result: every failure reported as the generic SQLITE_ERROR.
RegisterResultMasked(rc) == IF rc = SQLITE_OK THEN SQLITE_OK ELSE 1

\* The result of sqlite_vec_register: return sqlite3_vec_init(...).
RegisterResult(rc) == rc

\* A faulty accessor: empty until some connection has been registered.
VersionAfterInit == IF registered = {} THEN "" ELSE SQLITE_VEC_VERSION

\* sqlite_vec_version: return SQLITE_VEC_VERSION.
sqlite_vec_version == SQLITE_VEC_VERSION

\* The extension's record of a successful initialization on db.
ExtRegistered(reg, db, rc) == IF rc = SQLITE_OK THEN reg \cup {db} ELSE reg

(* ------------------------------------------------------------------ *)
(* The state machine                                                   *)
(* ------------------------------------------------------------------ *)

Init ==
    /\ pc = [t \in Threads |-> "idle"]
    /\ call = [t \in Threads |-> NoCall]
    /\ frame = [t \in Threads |-> NoFrame]
    /\ ret = [t \in Threads |-> NoRet]
    /\ inits = [t \in Threads |-> <<>>]
    /\ registered = {}
    /\ initialised = {}
    /\ remembered = NoMemo
    /\ SQLITE_VEC_VERSION \in VersionStrings

\* Thread t calls a function of the shim: the arguments become the
\* callee's parameters.  The functions are entered unconditionally: nothing
\* in the shim keeps two threads from registering one connection at once.
Call(t, c) ==
    /\ pc[t] = "idle"
    /\ pc' = [pc EXCEPT ![t] = "entered"]
    /\ call' = [call EXCEPT ![t] = c]
    /\ frame' = [frame EXCEPT ![t] =
                    [db |-> c.db, dimensions |-> c.dimensions, rc |-> NoRc]]
    /\ UNCHANGED <<ret, inits, registered, initialised, remembered,
                   SQLITE_VEC_VERSION>>

\* sqlite_vec_register, up to the return of sqlite3_vec_init(db, NULL, NULL):
\* the extension is invoked and answers with the status rc.
RegisterInit(t, rc) ==
    /\ pc[t] = "entered"
    /\ call[t].fn = FnRegister
    /\ LET a == RegisterInitArgs(Param(t).db)
       IN  /\ inits' = [inits EXCEPT ![t] =
                           Append(@, [db |-> a.db, pzErrMsg |-> a.pzErrMsg,
                                      pApi |-> a.pApi, rc |-> rc])]
           /\ initialised' = initialised \cup {a.db}
           /\ registered' = ExtRegistered(registered, a.db, rc)
    /\ frame' = [frame EXCEPT ![t].rc = rc]
    /\ pc' = [pc EXCEPT ![t] = "inited"]
    /\ UNCHANGED <<call, ret, remembered, SQLITE_VEC_VERSION>>

\* sqlite_vec_register returns the status of sqlite3_vec_init.
RegisterReturn(t) ==
    /\ pc[t] = "inited"
    /\ call[t].fn = FnRegister
    /\ ret' = [ret EXCEPT ![t] = RegisterResult(Param(t).rc)]
    /\ frame' = [frame EXCEPT ![t] = NoFrame]
    /\ pc' = [pc EXCEPT ![t] = "returned"]
    /\ UNCHANGED <<call, inits, registered, initialised, remembered,
                   SQLITE_VEC_VERSION>>

\* The body of a function that calls nothing: it returns `value`.
Return(t, fn, value) ==
    /\ pc[t] = "entered"
    /\ call[t].fn = fn
    /\ ret' = [ret EXCEPT ![t] = value]
    /\ frame' = [frame EXCEPT ![t] = NoFrame]
    /\ pc' = [pc EXCEPT ![t] = "returned"]
    /\ UNCHANGED <<call, inits, registered, initialised, remembered,
                   SQLITE_VEC_VERSION>>

Version(t) == Return(t, FnVersion, sqlite_vec_version)

Float32ByteSize(t) ==
    Return(t, FnFloat32, sqlite_vec_float32_byte_size(Param(t).dimensions))

Int8ByteSize(t) ==
    Return(t, FnInt8, sqlite_vec_int8_byte_size(Param(t).dimensions))

BinaryByteSize(t) ==
    Return(t, FnBinary, sqlite_vec_binary_byte_size(Param(t).dimensions))

\* The caller takes the result and goes on; it may keep the first result of
\* a size or version call, with the extension's state at that time, to
\* compare later calls against.
Resume(t, remember) ==
    /\ pc[t] = "returned"
    /\ remembered' =
           IF remember /\ remembered.fn = NoCall.fn /\ call[t].fn # FnRegister
           THEN [fn |-> call[t].fn, db |-> call[t].db,
                 dimensions |-> call[t].dimensions, ret |-> ret[t],
                 registered |-> registered, initialised |-> initialised]
           ELSE remembered
    /\ pc' = [pc EXCEPT ![t] = "idle"]
    /\ call' = [call EXCEPT ![t] = NoCall]
    /\ ret' = [ret EXCEPT ![t] = NoRet]
    /\ inits' = [inits EXCEPT ![t] = <<>>]
    /\ UNCHANGED <<frame, registered, initialised, SQLITE_VEC_VERSION>>

\* One step of thread t, with dimensionalities from D.
Step(t, D, R) ==
    \/ \E c \in CallsOver(D) : Call(t, c)
    \/ \E rc \in StatusCodes : RegisterInit(t, rc)
    \/ RegisterReturn(t)
    \/ Version(t)
    \/ Float32ByteSize(t)
    \/ Int8ByteSize(t)
    \/ BinaryByteSize(t)
    \/ \E remember \in R : Resume(t, remember)

\* One caller thread, the whole range of dimensionalities.
Next == Step(Main, Dims, BOOLEAN)
Spec == Init /\ [][Next]_vars

\* Several caller threads.
ConcNext == \E t \in Threads : Step(t, ConcDims, {FALSE})
ConcSpec == Init /\ [][ConcNext]_vars

(* ------------------------------------------------------------------ *)
(* Exact values, stated without the machine arithmetic of the helpers  *)
(* ------------------------------------------------------------------ *)

Returned(t, fn) == pc[t] = "returned" /\ call[t].fn = fn

\* ceil(d / 8) of an int d (\div rounds down).
Ceil8(d) == IF d % 8 = 0 THEN d \div 8 ELSE (d \div 8) + 1

\* The word of 4 * n for 0 <= n < 2^31: with n = a + b*2^14 + c*2^30,
\* 4n = 4a + b*2^16 + c*2^32.
Times4Word(n) == <<4 * (n % 2^14), (n \div 2^14) % LimbBase, n \div 2^30, 0>>

\* The word of n modulo 2^64 for an int n: for n < 0 it is
\* 2^64 - 1 - (-n - 1), the limb-wise complement of -n - 1.
Mod64Word(n) ==
    IF n >= 0 THEN NatWord(n)
    ELSE LET m == NatWord(-(n + 1))
         IN  <<LimbMax - m[1], LimbMax - m[2], LimbMax, LimbMax>>

\* The word of 4 * d modulo 2^64 for d < 0: 2^64 - 1 - (4 * (-d - 1) + 3).
NegTimes4Word(d) ==
    LET m == Times4Word(-(d + 1))
    IN  <<LimbMax - (m[1] + 3), LimbMax - m[2], LimbMax - m[3], LimbMax>>

\* The word of 2^61 + n for -2^28 <= n < 0.
Pow61PlusWord(n) ==
    LET m == Mod64Word(n) IN <<m[1], m[2], m[3], 2^13 - 1>>

(* ------------------------------------------------------------------ *)
(* Claims                                                              *)
(* ------------------------------------------------------------------ *)

\* C1: for every dimensionality d >= 0, sqlite_vec_binary_byte_size(d) is
\* ceil(d/8): k for d = 8k, and rounded up to the next byte otherwise.
C1_BinaryIsCeil ==
    \A t \in Threads :
        Returned(t, FnBinary) /\ call[t].dimensions >= 0 =>
            LET d == call[t].dimensions
            IN  /\ ret[t] = NatWord(Ceil8(d))
                /\ d % 8 = 0 => ret[t] = NatWord(d \div 8)
                /\ d % 8 # 0 => ret[t] = NatWord((d \div 8) + 1)
                /\ d = 0 => ret[t] = <<0, 0, 0, 0>>

C1_Witness ==
    \E t \in Threads :
        Returned(t, FnBinary) /\ call[t].dimensions = 9 /\ ret[t] = <<2, 0, 0, 0>>

\* C2: for every dimensionality d >= 0, sqlite_vec_float32_byte_size(d) is
\* 4*d; 384 gives 1536 and 0 gives 0.
C2_Float32IsTimes4 ==
    \A t \in Threads :
        Returned(t, FnFloat32) /\ call[t].dimensions >= 0 =>
            LET d == call[t].dimensions
            IN  /\ ret[t] = Times4Word(d)
                /\ d < 2^29 => ret[t] = NatWord(4 * d)
                /\ d = 384 => ret[t] = <<1536, 0, 0, 0>>
                /\ d = 0 => ret[t] = <<0, 0, 0, 0>>

C2_Witness ==
    \E t \in Threads :
        Returned(t, FnFloat32) /\ call[t].dimensions = 384
        /\ ret[t] = <<1536, 0, 0, 0>>

\* C3: for every dimensionality d >= 0, sqlite_vec_int8_byte_size(d) is d.
C3_Int8IsIdentity ==
    \A t \in Threads :
        Returned(t, FnInt8) /\ call[t].dimensions >= 0 =>
            ret[t] = NatWord(call[t].dimensions)

C3_Witness ==
    \E t \in Threads :
        Returned(t, FnInt8) /\ call[t].dimensions = 384 /\ ret[t] = <<384, 0, 0, 0>>

\* C4: sqlite_vec_register returns exactly the status its one invocation of
\* the extension's initialization routine returned, success or failure.
C4_StatusPassThrough ==
    \A t \in Threads :
        Returned(t, FnRegister) =>
            /\ Len(inits[t]) = 1
            /\ ret[t] = inits[t][1].rc
            /\ ret[t] \in StatusCodes

C4_Witness ==
    \E t \in Threads :
        Returned(t, FnRegister) /\ inits[t][1].rc = 7 /\ ret[t] = 7

\* C5 as stated: for d < 0 every size function returns its formula applied
\* to d, modulo 2^64: 4*d, d and ceil(d/8).
C5_NegativeFormulaMod ==
    \A t \in Threads :
        pc[t] = "returned" /\ call[t].fn \in SizeFns /\ call[t].dimensions < 0 =>
            LET d == call[t].dimensions
            IN  /\ call[t].fn = FnFloat32 => ret[t] = NegTimes4Word(d)
                /\ call[t].fn = FnInt8 => ret[t] = Mod64Word(d)
                /\ call[t].fn = FnBinary => ret[t] = Mod64Word(Ceil8(d))

\* C5 as amended: for d < 0 the float32 size is 4*d modulo 2^64 and the int8
\* size is d modulo 2^64; the binary size is 0 for -7 <= d <= -1 and
\* 2^61 + ceil(d/8) for d <= -8.
C5_NegativeAmended ==
    \A t \in Threads :
        pc[t] = "returned" /\ call[t].fn \in SizeFns /\ call[t].dimensions < 0 =>
            LET d == call[t].dimensions
            IN  /\ call[t].fn = FnFloat32 => ret[t] = NegTimes4Word(d)
                /\ call[t].fn = FnInt8 => ret[t] = Mod64Word(d)
                /\ call[t].fn = FnBinary /\ d >= -7 => ret[t] = <<0, 0, 0, 0>>
                /\ call[t].fn = FnBinary /\ d <= -8 =>
                       ret[t] = Pow61PlusWord(Ceil8(d))

C5_Witness ==
    \E t \in Threads :
        Returned(t, FnBinary) /\ call[t].dimensions = -8
        /\ ret[t] = <<LimbMax, LimbMax, LimbMax, 2^13 - 1>>

\* C6: a size function called again with the same dimensionality returns
\* what it returned the first time, whatever calls, successful or failed
\* registrations included, happened in between.
C6_SizeRepeatable ==
    \A t \in Threads :
        /\ pc[t] = "returned"
        /\ call[t].fn \in SizeFns
        /\ remembered.fn = call[t].fn
        /\ remembered.dimensions = call[t].dimensions
        => ret[t] = remembered.ret

\* A repeated size call with a successful and a failed registration between
\* the two calls.
C6_Witness ==
    \E t \in Threads :
        /\ Returned(t, FnInt8)
        /\ remembered.fn = FnInt8
        /\ remembered.dimensions = call[t].dimensions
        /\ call[t].dimensions = 9
        /\ remembered.initialised = {}
        /\ registered # {}
        /\ initialised \ registered # {}

\* The result a call has when it runs alone: the size function of its own
\* dimensionality, the version string, or the status the extension gave for
\* the call's own connection.
AloneResult(t) ==
    CASE call[t].fn = FnFloat32 ->
             ret[t] = sqlite_vec_float32_byte_size(call[t].dimensions)
      [] call[t].fn = FnInt8 ->
             ret[t] = sqlite_vec_int8_byte_size(call[t].dimensions)
      [] call[t].fn = FnBinary ->
             ret[t] = sqlite_vec_binary_byte_size(call[t].dimensions)
      [] call[t].fn = FnVersion -> ret[t] = SQLITE_VEC_VERSION
      [] call[t].fn = FnRegister ->
             /\ Len(inits[t]) = 1
             /\ inits[t][1].db = call[t].db
             /\ ret[t] = inits[t][1].rc

\* C7: with several threads calling concurrently, every call returns what
\* it returns alone and the extension is handed the connection of the
\* calling thread only.  This holds of registrations on distinct connections,
\* the case of the claim, and of the shim's part of overlapping
\* registrations on one connection as well.
C7_CallsIsolated ==
    \A t \in Threads :
        /\ pc[t] = "returned" => AloneResult(t)
        /\ pc[t] = "inited" => inits[t][1].db = call[t].db
        /\ pc[t] \in {"entered", "inited"} =>
               /\ frame[t].db = call[t].db
               /\ frame[t].dimensions = call[t].dimensions

\* Two registrations on distinct connections overlapped, with different
\* outcomes, while both results are held by their callers.
C7_Witness ==
    \E t, u \in Threads :
        /\ t # u
        /\ Returned(t, FnRegister) /\ Returned(u, FnRegister)
        /\ call[t].db # call[u].db
        /\ ret[t] = SQLITE_OK /\ ret[u] = 7

\* C8: sqlite_vec_version returns the extension's version constant, which
\* is not empty, and the same value as an earlier call, whatever was
\* registered in between.
C8_VersionStable ==
    \A t \in Threads :
        Returned(t, FnVersion) =>
            /\ ret[t] = SQLITE_VEC_VERSION
            /\ ret[t] # ""
            /\ remembered.fn = FnVersion => ret[t] = remembered.ret

C8_Witness ==
    \E t \in Threads :
        /\ Returned(t, FnVersion)
        /\ remembered.fn = FnVersion
        /\ remembered.initialised = {}
        /\ registered # {}
        /\ initialised \ registered # {}

\* C9: a call of sqlite_vec_register(db) invokes the initialization routine
\* exactly once, with (db, NULL, NULL), whether or not db was registered
\* before; no other function invokes it; no parameter outlives its call.
C9_RegisterForwardsOnce ==
    \A t \in Threads :
        /\ pc[t] \in {"inited", "returned"} /\ call[t].fn = FnRegister =>
               /\ Len(inits[t]) = 1
               /\ inits[t][1].db = call[t].db
               /\ inits[t][1].pzErrMsg = NULL
               /\ inits[t][1].pApi = NULL
        /\ pc[t] \in {"idle", "entered"} \/ call[t].fn # FnRegister =>
               inits[t] = <<>>
        /\ pc[t] \in {"idle", "returned"} => frame[t] = NoFrame

\* A registration that failed on a connection an earlier call had
\* registered: a second call on the same connection.
C9_Witness ==
    \E t \in Threads :
        /\ Returned(t, FnRegister)
        /\ ret[t] # SQLITE_OK
        /\ call[t].db \in registered
        /\ inits[t] = <<[db |-> call[t].db, pzErrMsg |-> NULL, pApi |-> NULL,
                         rc |-> ret[t]]>>

\* C10: for 2^29 <= d <= 2^31 - 1, where 4*d and d+7 do not fit an int, the
\* sizes are exact: the float32 size is 4*d, at most 2^33 - 4, and the
\* binary size is ceil(d/8), at most 2^28.
C10_NoWrapAtTop ==
    \A t \in Threads :
        pc[t] = "returned" /\ call[t].dimensions >= 2^29 =>
            LET d == call[t].dimensions
            IN  /\ call[t].fn = FnFloat32 =>
                    /\ ret[t][4] = 0 /\ ret[t][3] = d \div 2^30
                    /\ DivWord(ret[t], 4) = NatWord(d)
                    /\ ret[t][1] % 4 = 0
                    /\ d = INT_MAX => ret[t] = <<LimbBase - 4, LimbMax, 1, 0>>
                /\ call[t].fn = FnBinary =>
                    /\ ret[t][4] = 0 /\ ret[t][3] = 0 /\ ret[t][2] <= 2^12
                    /\ ret[t] = NatWord(Ceil8(d))
                    /\ d = INT_MAX => ret[t] = <<0, 2^12, 0, 0>>

C10_Witness ==
    \E t \in Threads :
        /\ Returned(t, FnFloat32)
        /\ call[t].dimensions = INT_MAX
        /\ ret[t] = <<LimbBase - 4, LimbMax, 1, 0>>

====
